---- MODULE Spec2Model ----
(***************************************************************************)
(* The welcome feature of SkyBot (src/cogs/admin/welcome.py): the tiered   *)
(* configuration store, the draft message editor (WelcomeMessageView) and  *)
(* the draft role selector (WelcomeRolesView).                             *)
(*                                                                         *)
(* Python dicts are mutable objects held by reference.  The model keeps a  *)
(* heap of message-config objects: "default" is the class attribute        *)
(* Welcome._DEFAULT_MSG, and every session owns one more cell that holds   *)
(* the object get_json built for it, when it built one.  A session's draft *)
(* is the heap object its msg_cfg attribute refers to.                     *)
(*                                                                         *)
(* Strings the code inspects (colours) are sequences of one-character      *)
(* strings; strings it only passes around (title, content, footer, image)  *)
(* are atoms.                                                              *)
(***************************************************************************)
EXTENDS Integers, Sequences, FiniteSets, TLC

VARIABLES store, heap, sess, modal, pend, preview, report, saveRun, nOps,
          notice, guildRoles, canManage, rsess, joined

vars == <<store, heap, sess, modal, pend, preview, report, saveRun, nOps,
          notice, guildRoles, canManage, rsess, joined>>

editorVars == <<heap, sess, modal, pend, preview, report, saveRun>>
roleVars == <<guildRoles, canManage, rsess, joined>>

----------------------------------------------------------------------------
(* Bounds of the model.                                                    *)

\* events in a behaviour: button presses, view timeouts, configuration
\* commands, and failures of the store or of the transport other than the
\* transport's rejection of an image reference
MaxOps == 2

\* the same, for the behaviours of the role selector
MaxRoleOps == 4

----------------------------------------------------------------------------
(* Universe.                                                               *)

GlobalScope == 0
Guilds == {1, 2}
Scopes == {GlobalScope} \cup Guilds
Sessions == {"s1", "s2"}
DefaultObj == "default"
Objs == {DefaultObj} \cup Sessions

\* get_json's None; also the value of an empty JSON object, which Python's
\* `or` treats the same way
None == <<>>

----------------------------------------------------------------------------
(* Colour strings: discord.Color.from_str as set_color and build call it.  *)

HexDigits == {"0", "1", "2", "3", "4", "5", "6", "7", "8", "9",
              "a", "b", "c", "d", "e", "f", "A", "B", "C", "D", "E", "F"}
DecDigits == {"0", "1", "2", "3", "4", "5", "6", "7", "8", "9"}

DigitVal(c) ==
    CASE c = "0" -> 0 [] c = "1" -> 1 [] c = "2" -> 2 [] c = "3" -> 3
      [] c = "4" -> 4 [] c = "5" -> 5 [] c = "6" -> 6 [] c = "7" -> 7
      [] c = "8" -> 8 [] c = "9" -> 9
      [] c \in {"a", "A"} -> 10 [] c \in {"b", "B"} -> 11
      [] c \in {"c", "C"} -> 12 [] c \in {"d", "D"} -> 13
      [] c \in {"e", "E"} -> 14 [] c \in {"f", "F"} -> 15

\* str.lower on the letters of the model's alphabet
LowerChar(c) ==
    CASE c = "A" -> "a" [] c = "B" -> "b" [] c = "C" -> "c" [] c = "D" -> "d"
      [] c = "E" -> "e" [] c = "F" -> "f" [] c = "R" -> "r" [] c = "G" -> "g"
      [] OTHER -> c

Lower(s) == [i \in 1..Len(s) |-> LowerChar(s[i])]

\* str.startswith
StartsWith(s, p) == Len(s) >= Len(p) /\ SubSeq(s, 1, Len(p)) = p

\* s[n:]
Drop(s, n) == SubSeq(s, n + 1, Len(s))

Invalid == -1
ColorMax == 16777215

Min(a, b) == IF a < b THEN a ELSE b

\* int(s, base) of a digit string, saturating just above the largest value
\* the callers accept
RECURSIVE ToInt(_, _, _, _)
ToInt(s, base, cap, acc) ==
    IF s = <<>> THEN acc
    ELSE ToInt(Tail(s), base, cap, Min(acc * base + DigitVal(Head(s)), cap + 1))

\* parse_hex_number: three digits are doubled, then int(arg, 16) in 0..0xFFFFFF
ParseHexNumber(argument) ==
    LET arg == IF Len(argument) = 3
               THEN [i \in 1..6 |-> argument[(i + 1) \div 2]]
               ELSE argument
    IN  IF arg = <<>> \/ \E i \in 1..Len(arg) : arg[i] \notin HexDigits
        THEN Invalid
        ELSE LET v == ToInt(arg, 16, ColorMax, 0)
             IN  IF v > ColorMax THEN Invalid ELSE v

\* the text up to the first "," (all of it when there is none)
RECURSIVE UpToComma(_)
UpToComma(s) ==
    IF s = <<>> \/ Head(s) = "," THEN <<>> ELSE <<Head(s)>> \o UpToComma(Tail(s))

\* parse_rgb_number without the percent form: one to three digits, 0..255
RgbNumber(n) ==
    IF Len(n) \notin 1..3 \/ \E i \in 1..Len(n) : n[i] \notin DecDigits
    THEN Invalid
    ELSE LET v == ToInt(n, 10, 255, 0) IN IF v > 255 THEN Invalid ELSE v

\* parse_rgb on "rgb(R,G,B)" (the model's alphabet has no blank and no "%")
ParseRgb(arg) ==
    IF ~StartsWith(arg, <<"r", "g", "b", "(">>) \/ arg[Len(arg)] # ")"
    THEN Invalid
    ELSE LET body == SubSeq(arg, 5, Len(arg) - 1)
             r == UpToComma(body)
             rest1 == Drop(body, Len(r) + 1)
             g == UpToComma(rest1)
             b == Drop(rest1, Len(g) + 1)
         IN  IF Len(body) < Len(r) + 1 \/ Len(rest1) < Len(g) + 1
                \/ RgbNumber(r) = Invalid \/ RgbNumber(g) = Invalid
                \/ RgbNumber(b) = Invalid
             THEN Invalid
             ELSE RgbNumber(r) * 65536 + RgbNumber(g) * 256 + RgbNumber(b)

\* discord.Color.from_str: the colour's number, or Invalid for ValueError
ColorFromStr(value) ==
    IF value = <<>> THEN Invalid
    ELSE IF value[1] = "#" THEN ParseHexNumber(Drop(value, 1))
    ELSE IF StartsWith(value, <<"0", "x">>)
         THEN LET rest == Drop(value, 2)
              IN  IF StartsWith(rest, <<"#">>) THEN ParseHexNumber(Drop(rest, 1))
                  ELSE ParseHexNumber(rest)
    ELSE IF StartsWith(Lower(value), <<"r", "g", "b">>) THEN ParseRgb(Lower(value))
    ELSE Invalid

----------------------------------------------------------------------------
(* Message configurations (_MsgCfg) and the payload build makes of one.    *)

Fields == {"ping", "showAvatar", "color", "title", "content", "footer", "image"}

\* Welcome._DEFAULT_MSG as the class body builds it
InitialDefaultMsg ==
    [ping |-> FALSE,
     showAvatar |-> TRUE,
     color |-> <<"#", "5", "8", "6", "5", "F", "2">>,
     title |-> "Welcome to {server.name}",
     content |-> "We are glad to have you here, {member.mention}.",
     footer |-> "You are the {member.ordinal} member of this server",
     image |-> "{randomImage}"]

\* a 'message' value an administrator keeps at the global-default scope
GlobalMsg ==
    [ping |-> TRUE, showAvatar |-> TRUE, color |-> <<>>, title |-> "Hello",
     content |-> "Welcome!", footer |-> "", image |-> ""]

\* a 'message' value an earlier save left at a community's scope
GuildMsg ==
    [ping |-> FALSE, showAvatar |-> FALSE, color |-> <<"#", "1", "1", "1">>,
     title |-> "", content |-> "Hi {member.mention}", footer |-> "bye",
     image |-> "http://ok.png"]

\* what the operator may type into the sub-dialogs
TitleInputs == {"Hi"}
ContentInputs == {"Yo"}
FooterInputs == {""}
ColorInputs == {<<>>,
                <<"1", "1", "1">>,
                <<"r", "g", "b", "(", "1", ",", "2", ",", "3", ")">>,
                <<"n", "o", "t", "a", "c", "o", "l", "o", "r">>,
                <<"R", "G", "B", "(", "1", ",", "2", ",", "3", ")">>}
ImageInputs == {"http://new.png", "not a url"}

\* image references the transport answers with HTTP 400
BadImages == {"not a url"}

\* VarParser.parse on the text atoms of the model: placeholders are resolved
\* against the member context, other text is returned as it is
ParseText(v) ==
    CASE v = "{randomImage}" -> "http://random.png"
      [] v = "Welcome to {server.name}" -> "Welcome to Sky"
      [] v = "We are glad to have you here, {member.mention}." ->
             "We are glad to have you here, @member."
      [] v = "You are the {member.ordinal} member of this server" ->
             "You are the 5th member of this server"
      [] v = "Hi {member.mention}" -> "Hi @member"
      [] OTHER -> v

\* VarParser.parse on a colour string: the colour alphabet has no brace, so
\* there is no placeholder to resolve
ParseColorText(c) == c

NoColor == -2

\* WelcomeMessageBuilder.build; color = Invalid stands for the ValueError
\* discord.Color.from_str raises
Build(config) ==
    LET color == ParseColorText(config.color)
    IN  [content |-> IF config.ping THEN "@member" ELSE "",
         color |-> IF color = <<>> THEN NoColor ELSE ColorFromStr(color),
         title |-> ParseText(config.title),
         description |-> ParseText(config.content),
         footer |-> ParseText(config.footer),
         image |-> ParseText(config.image),
         author |-> config.showAvatar]

\* what sending or editing a message with this payload can end in: "ok",
\* HTTP 400 for an image reference the transport rejects, or another
\* HTTPException
TransportOutcomes(payload) ==
    IF payload.image \in BadImages THEN {"http400"} ELSE {"ok", "httpErr"}

----------------------------------------------------------------------------
(* The configuration store (utils.remote_config), keyed by scope and path. *)
(* store[scope] maps the paths present at that scope to their values.      *)

ExistsJson(st, scope, path) == path \in DOMAIN st[scope]

GetJson(st, scope, path) ==
    IF path \in DOMAIN st[scope] THEN st[scope][path] ELSE None

PutPath(st, scope, path, value) ==
    [st EXCEPT ![scope] = [p \in (DOMAIN @) \cup {path} |->
                              IF p = path THEN value ELSE @[p]]]

\* shallow merge of two JSON objects
MergeObj(old, new) ==
    [k \in (DOMAIN old) \cup (DOMAIN new) |->
        IF k \in DOMAIN new THEN new[k] ELSE old[k]]

\* merge_json with an object value
MergeJson(st, scope, path, value) ==
    PutPath(st, scope, path, MergeObj(GetJson(st, scope, path), value))

\* merge_json with an array value: an array replaces what was stored
MergeJsonList(st, scope, path, value) == PutPath(st, scope, path, value)

\* set_json of one leaf of the object at path
SetJsonLeaf(st, scope, path, key, value) ==
    PutPath(st, scope, path,
            MergeObj(GetJson(st, scope, path), [k \in {key} |-> value]))

----------------------------------------------------------------------------
(* State.                                                                  *)
(*   store    the remote configuration store                               *)
(*   heap     the message-config objects (see the head of the module)      *)
(*   sess     per editor session: status, guild, and the heap object its   *)
(*            msg_cfg refers to                                            *)
(*   modal    per session: the handler suspended in `await modal.wait()`   *)
(*   pend     per session: the set_image handler suspended in its          *)
(*            `await self.update_message(...)`, with its old_image         *)
(*   preview  per session: the payload the hosting message shows           *)
(*   report   per session: the last notice sent to the operator            *)
(*   saveRun  the session whose saves that wrote the store were the last   *)
(*            steps, and how many they were (history, read by the          *)
(*            properties only)                                             *)
(*   nOps     events so far: button presses, timeouts, configuration       *)
(*            commands, store and transport failures                       *)
(*   notice   what the last command answered its invoker                   *)
(*   guildRoles  per guild and role id: whether the role exists and        *)
(*            whether Role.is_assignable() holds of it                     *)
(*   canManage   per guild: the bot's manage_roles permission              *)
(*   rsess    per role selector: status, guild, the select's               *)
(*            default_values and values, and whether a select action was   *)
(*            handled (history, read by the properties only)               *)
(*   joined   the last member-join event handled: guild, whether the       *)
(*            member is a bot, the roles it was granted, whether a         *)
(*            welcome message was sent and from which configuration        *)
(***************************************************************************)

Draft(s) == heap[sess[s].ref]

NoSession == [status |-> "none", guild |-> 0, ref |-> DefaultObj]
NoPend == [active |-> FALSE, old |-> "", payload |-> Build(InitialDefaultMsg)]
ModalKinds == {"title", "content", "footer", "color", "image"}

NoRun == [s |-> "", n |-> 0]
NoNotice == [g |-> 0, title |-> "", body |-> <<>>]

\* a step that is no save writing the store ends the run of saves
EndRun == saveRun' = NoRun

\* n more events
Cost(n) == nOps + n <= MaxOps /\ nOps' = nOps + n

\* one more event
Count == Cost(1)

\* an outcome that is a failure of the store or the transport is an event
Faults == {"httpErr", "storeErr", "sendErr"}
FaultCost(out) == IF out \in Faults THEN 1 ELSE 0

\* the guild's roles: 11 and 13 below the bot's top role, 12 above it
Roles == {11, 12, 13}
InitialRoles ==
    [id \in Roles |-> [exists |-> TRUE, assignable |-> id # 12]]

RSessions == {"r1", "r2"}
NoSelector == [status |-> "none", guild |-> 0, defaults |-> <<>>,
               values |-> <<>>, selected |-> FALSE]

NoJoin == [g |-> 0, bot |-> FALSE, roles |-> <<>>, sent |-> FALSE,
           cfg |-> InitialDefaultMsg]

\* the role selector's part of the state before any selector is opened
RolesIdle ==
    /\ guildRoles = [g \in Guilds |-> InitialRoles]
    /\ canManage = [g \in Guilds |-> g = 1]
    /\ rsess = [r \in RSessions |-> NoSelector]
    /\ joined = NoJoin

EditorIdle ==
    /\ saveRun = NoRun
    /\ heap = [o \in Objs |-> InitialDefaultMsg]
    /\ sess = [s \in Sessions |-> NoSession]
    /\ modal = [s \in Sessions |-> "none"]
    /\ pend = [s \in Sessions |-> NoPend]
    /\ preview = [s \in Sessions |-> Build(InitialDefaultMsg)]
    /\ report = [s \in Sessions |-> ""]

\* Every combination of the layers: guild 1 with and without a saved
\* message and enable object, the global default present or absent, guild 2
\* with nothing stored.
Init ==
    /\ \E glob \in {<<>>, [message |-> GlobalMsg]},
          own \in {<<>>, [message |-> GuildMsg, enable |-> [message |-> TRUE]]} :
          store = [sc \in Scopes |->
                     IF sc = GlobalScope THEN glob ELSE IF sc = 1 THEN own ELSE <<>>]
    /\ EditorIdle
    /\ RolesIdle
    /\ nOps = 0
    /\ notice = NoNotice

----------------------------------------------------------------------------
(* Welcome: the cog's commands.                                            *)

\* fetch_welcome_msg: the object returned.  A stored value is a new object
\* (obj = "new", val its content); the fallback is _DEFAULT_MSG itself.
FetchWelcomeMsg(st, hp, guild_id) ==
    LET own == GetJson(st, guild_id, "message")
        msg == IF own # None THEN own ELSE GetJson(st, GlobalScope, "message")
    IN  IF msg # None THEN [obj |-> "new", val |-> msg]
        ELSE [obj |-> DefaultObj, val |-> hp[DefaultObj]]

\* what a render of config ends in: build's ValueError, or the transport's
\* answer to the payload
RenderOutcomes(config) ==
    IF Build(config).color = Invalid THEN {"valueErr"}
    ELSE TransportOutcomes(Build(config))

\* welcome_message: /welcome message in guild g opens editor session s
WelcomeMessage(s, g) ==
    /\ sess[s].status = "none"
    /\ s = "s2" => sess["s1"].status # "none"
    /\ LET got == FetchWelcomeMsg(store, heap, g)
           ref == IF got.obj = "new" THEN s ELSE DefaultObj
       IN  \E out \in RenderOutcomes(got.val) :
             /\ EndRun
             /\ Cost(FaultCost(out))
             /\ IF out = "ok"
                THEN /\ heap' = IF got.obj = "new"
                                THEN [heap EXCEPT ![s] = got.val] ELSE heap
                     /\ sess' = [sess EXCEPT ![s] =
                                   [status |-> "Active", guild |-> g, ref |-> ref]]
                     /\ preview' = [preview EXCEPT ![s] = Build(got.val)]
                ELSE UNCHANGED <<heap, sess, preview>>
    /\ UNCHANGED <<store, modal, pend, report, notice, roleVars>>

\* the options welcome_enable would merge if an omitted argument counted
\* as False
EnableOptionsUnfiltered(message) ==
    [k \in {"message"} |-> IF message = <<>> THEN FALSE ELSE message[1]]

\* the options welcome_enable merges: the arguments that are not None
\* (message is <<>> when the argument is omitted, else <<b>>)
EnableOptions(message) == [k \in {x \in {"message"} : message # <<>>} |-> message[1]]

\* the lines welcome_enable shows: each stored option as Yes or No
OptionLines(options) ==
    [k \in DOMAIN options |-> IF options[k] THEN "Yes" ELSE "No"]

\* welcome_enable
WelcomeEnable(g, message) ==
    /\ Count
    /\ store' = MergeJson(store, g, "enable", EnableOptions(message))
    /\ notice' = [g |-> g, title |-> "Welcome feature options",
                  body |-> OptionLines(GetJson(store', g, "enable"))]
    /\ UNCHANGED <<editorVars, roleVars>>

\* what welcome_image is invoked with: no file, an image file or a file of
\* another type; no url ("" stands for the omitted option), a url the
\* transport accepts or one it refuses
FileInputs == {"none", "png", "exe"}
UrlInputs == {"", "http://new.png", "not a url"}
UploadedUrl == "http://cdn/upload.png"

\* welcome_image's check that there is a message to change, as it would be
\* if it resolved the message through the fallback tiers
MessageIsSetFallback(st, g) ==
    ExistsJson(st, g, "message") \/ ExistsJson(st, GlobalScope, "message")

\* welcome_image's check that there is a message to change
MessageIsSet(st, g) == ExistsJson(st, g, "message")

\* welcome_image's early returns: the failure it reports before anything
\* is sent, or "" when it goes on.  db says whether the database channel
\* was found at start-up.
ImageRefusal(st, g, file, url, db) ==
    IF ~MessageIsSet(st, g) THEN "Please set message first"
    ELSE IF file = "none" /\ url = "" THEN "Both options are empty"
    ELSE IF file # "none" /\ ~db THEN "File uploading not available"
    ELSE IF file = "exe" THEN "Format not supported"
    ELSE ""

\* what welcome_image can end in once its checks have passed: the upload
\* of the file raises ("uploadErr"), the confirmation is refused, set_json
\* raises, or all is done
ImageOutcomes(file, url) ==
    (IF file # "none" THEN {"uploadErr"} ELSE {})
        \cup (IF url \in BadImages THEN {"http400"} ELSE {"ok", "httpErr", "storeErr"})

\* welcome_image as it would be if it called set_json before sending the
\* confirmation
WelcomeImageWritingFirst(g, file, url, db, out) ==
    /\ nOps < MaxOps
    /\ LET refusal == ImageRefusal(store, g, file, url, db)
           image == IF file # "none" THEN UploadedUrl ELSE url
       IN  IF refusal # ""
           THEN /\ out = "ok"
                /\ Count
                /\ notice' = [g |-> g, title |-> refusal, body |-> <<>>]
                /\ UNCHANGED store
           ELSE /\ out \in ImageOutcomes(file, image)
                /\ Cost(1 + (IF out = "ok" THEN 0 ELSE 1))
                /\ notice' = IF out = "uploadErr" THEN notice
                             ELSE [g |-> g, body |-> <<>>,
                                   title |-> CASE out = "http400" -> "Invalid url format"
                                               [] out = "httpErr" -> "Error while saving"
                                               [] OTHER -> "Welcome image saved"]
                /\ store' = IF out \in {"ok", "http400", "httpErr"}
                            THEN SetJsonLeaf(store, g, "message", "image", image)
                            ELSE store
    /\ UNCHANGED <<editorVars, roleVars>>

\* welcome_image: out is "ok", "uploadErr" (nothing is reported), "http400"
\* or "httpErr" (the confirmation is refused), or "storeErr" (set_json
\* raises after the confirmation was sent, which no except clause catches)
WelcomeImage(g, file, url, db, out) ==
    /\ nOps < MaxOps
    /\ LET refusal == ImageRefusal(store, g, file, url, db)
           image == IF file # "none" THEN UploadedUrl ELSE url
       IN  IF refusal # ""
           THEN /\ out = "ok"
                /\ Count
                /\ notice' = [g |-> g, title |-> refusal, body |-> <<>>]
                /\ UNCHANGED store
           ELSE /\ out \in ImageOutcomes(file, image)
                /\ Cost(1 + (IF out = "ok" THEN 0 ELSE 1))
                /\ notice' = IF out = "uploadErr" THEN notice
                             ELSE [g |-> g, body |-> <<>>,
                                   title |-> CASE out = "http400" -> "Invalid url format"
                                               [] out = "httpErr" -> "Error while saving"
                                               [] OTHER -> "Welcome image saved"]
                /\ store' = IF out = "ok"
                            THEN SetJsonLeaf(store, g, "message", "image", image)
                            ELSE store
    /\ UNCHANGED <<editorVars, roleVars>>

----------------------------------------------------------------------------
(* WelcomeMessageView: the editor session's handlers.  A handler that      *)
(* opens a sub-dialog is two steps, SendModal up to `await modal.wait()`   *)
(* and the step named after the handler from there on; set_image has a     *)
(* third, SetImageDone, after its awaited update_message.                  *)

Active(s) == sess[s].status = "Active"

\* self.msg_cfg[field] = value, on the object the session refers to
Assign(hp, s, field, value) == [hp EXCEPT ![sess[s].ref][field] = value]

\* update_message: the hosting message shows the payload when the edit is
\* accepted, and keeps what it showed when build or the transport raises
UpdateMessage(pv, s, config, out) ==
    IF out = "ok" THEN [pv EXCEPT ![s] = Build(config)] ELSE pv

\* toggle_ping as it would be if it also saved the draft
TogglePingSaving(s) ==
    /\ Active(s)
    /\ nOps < MaxOps
    /\ heap' = Assign(heap, s, "ping", ~Draft(s).ping)
    /\ store' = MergeJson(store, sess[s].guild, "message", heap'[sess[s].ref])
    /\ \E out \in RenderOutcomes(heap'[sess[s].ref]) :
         /\ preview' = UpdateMessage(preview, s, heap'[sess[s].ref], out)
         /\ EndRun
         /\ Cost(1 + FaultCost(out))
    /\ UNCHANGED <<sess, modal, pend, report, notice, roleVars>>

\* toggle_ping
TogglePing(s) ==
    /\ Active(s)
    /\ nOps < MaxOps
    /\ heap' = Assign(heap, s, "ping", ~Draft(s).ping)
    /\ \E out \in RenderOutcomes(heap'[sess[s].ref]) :
         /\ preview' = UpdateMessage(preview, s, heap'[sess[s].ref], out)
         /\ EndRun
         /\ Cost(1 + FaultCost(out))
    /\ UNCHANGED <<store, sess, modal, pend, report, notice, roleVars>>

\* toggle_avatar
ToggleAvatar(s) ==
    /\ Active(s)
    /\ nOps < MaxOps
    /\ heap' = Assign(heap, s, "showAvatar", ~Draft(s).showAvatar)
    /\ \E out \in RenderOutcomes(heap'[sess[s].ref]) :
         /\ preview' = UpdateMessage(preview, s, heap'[sess[s].ref], out)
         /\ EndRun
         /\ Cost(1 + FaultCost(out))
    /\ UNCHANGED <<store, sess, modal, pend, report, notice, roleVars>>

\* edit_title, edit_content, edit_footer, set_color, set_image up to
\* `await modal.wait()`: the sub-dialog is shown
SendModal(s, kind) ==
    /\ Active(s)
    /\ modal[s] = "none"
    /\ Count
    /\ modal' = [modal EXCEPT ![s] = kind]
    /\ EndRun
    /\ UNCHANGED <<store, heap, sess, pend, preview, report, notice, roleVars>>

\* the operator closes the sub-dialog without submitting: the handler stays
\* suspended and never resumes
ModalDismissed(s) ==
    /\ modal[s] # "none"
    /\ modal' = [modal EXCEPT ![s] = "none"]
    /\ EndRun
    /\ UNCHANGED <<store, heap, sess, pend, preview, report, nOps, notice, roleVars>>

\* a text handler from the submission on: assign the field, re-render
EditText(s, kind, field, value) ==
    /\ modal[s] = kind
    /\ modal' = [modal EXCEPT ![s] = "none"]
    /\ heap' = Assign(heap, s, field, value)
    /\ \E out \in RenderOutcomes(heap'[sess[s].ref]) :
         /\ preview' = UpdateMessage(preview, s, heap'[sess[s].ref], out)
         /\ EndRun
         /\ Cost(FaultCost(out))
    /\ UNCHANGED <<store, sess, pend, report, notice, roleVars>>

\* edit_title
EditTitle(s, value) == EditText(s, "title", "title", value)

\* edit_content
EditContent(s, value) == EditText(s, "content", "content", value)

\* edit_footer
EditFooter(s, value) == EditText(s, "footer", "footer", value)

\* set_color's check as it would be without the call of from_str
CheckedColorUnchecked(value) ==
    IF value = <<>> THEN value
    ELSE IF \/ StartsWith(value, <<"#">>)
            \/ StartsWith(value, <<"0", "x">>)
            \/ StartsWith(value, <<"r", "g", "b">>)
         THEN value ELSE <<"#">> \o value

\* set_color's check as it would be if it stored the text as submitted
CheckedColorBare(value) ==
    IF value = <<>> THEN value
    ELSE LET color == IF \/ StartsWith(value, <<"#">>)
                         \/ StartsWith(value, <<"0", "x">>)
                         \/ StartsWith(value, <<"r", "g", "b">>)
                      THEN value ELSE <<"#">> \o value
         IN  IF ColorFromStr(color) = Invalid THEN <<"ValueError">> ELSE value

\* set_color's check of the submitted text: the colour to store, or
\* <<"ValueError">> when discord.Color.from_str raises
CheckedColor(value) ==
    IF value = <<>> THEN value
    ELSE LET color == IF \/ StartsWith(value, <<"#">>)
                         \/ StartsWith(value, <<"0", "x">>)
                         \/ StartsWith(value, <<"r", "g", "b">>)
                      THEN value ELSE <<"#">> \o value
         IN  IF ColorFromStr(color) = Invalid THEN <<"ValueError">> ELSE color

\* set_color from the submission on
SetColor(s, value) ==
    /\ modal[s] = "color"
    /\ modal' = [modal EXCEPT ![s] = "none"]
    /\ LET color == CheckedColor(value)
       IN  IF color = <<"ValueError">>
           THEN /\ report' = [report EXCEPT ![s] = "Invalid color format"]
                /\ EndRun
                /\ UNCHANGED <<heap, preview, nOps>>
           ELSE /\ heap' = Assign(heap, s, "color", color)
                /\ \E out \in RenderOutcomes(heap'[sess[s].ref]) :
                     /\ preview' = UpdateMessage(preview, s, heap'[sess[s].ref], out)
                     /\ EndRun
                     /\ Cost(FaultCost(out))
                /\ UNCHANGED report
    /\ UNCHANGED <<store, sess, pend, notice, roleVars>>

\* set_image from the submission to `await self.update_message(...)`
SetImage(s, value) ==
    /\ modal[s] = "image"
    /\ ~pend[s].active
    /\ modal' = [modal EXCEPT ![s] = "none"]
    /\ heap' = Assign(heap, s, "image", value)
    /\ pend' = [pend EXCEPT ![s] = [active |-> TRUE, old |-> Draft(s).image,
                                    payload |-> Build(heap'[sess[s].ref])]]
    /\ EndRun
    /\ UNCHANGED <<store, sess, preview, report, nOps, notice, roleVars>>

\* set_image's except clause as it would be without the restore
ImageAfterKept(s, out) == Draft(s).image

\* set_image's except clause: the image the draft holds once
\* update_message has ended in out
ImageAfter(s, out) == IF out = "http400" THEN pend[s].old ELSE Draft(s).image

\* set_image once update_message has returned or raised
SetImageDone(s) ==
    /\ pend[s].active
    /\ pend' = [pend EXCEPT ![s] = NoPend]
    /\ \E out \in (IF pend[s].payload.color = Invalid THEN {"valueErr"}
                   ELSE TransportOutcomes(pend[s].payload)) :
         /\ EndRun
         /\ Cost(FaultCost(out))
         /\ preview' = IF out = "ok" THEN [preview EXCEPT ![s] = pend[s].payload]
                       ELSE preview
         /\ heap' = Assign(heap, s, "image", ImageAfter(s, out))
         /\ report' = IF out = "http400"
                      THEN [report EXCEPT ![s] = "Invalid url format"]
                      ELSE report
    /\ UNCHANGED <<store, sess, modal, notice, roleVars>>

\* show_help
ShowHelp(s) ==
    /\ Active(s)
    /\ Count
    /\ report' = [report EXCEPT ![s] = "help"]
    /\ EndRun
    /\ UNCHANGED <<store, heap, sess, modal, pend, preview, notice, roleVars>>

\* the value save would hand to merge_json if it left the image out
SaveValueNoImage(s) == [k \in Fields \ {"image"} |-> Draft(s)[k]]

\* the value save would hand to merge_json if it left the title out
SaveValueNoTitle(s) == [k \in Fields \ {"title"} |-> Draft(s)[k]]

\* the value save hands to merge_json
SaveValue(s) == Draft(s)

\* save as it would be if it flipped ping before writing
SaveFlipping(s, out) ==
    /\ Active(s)
    /\ nOps < MaxOps
    /\ heap' = Assign(heap, s, "ping", ~Draft(s).ping)
    /\ store' = IF out = "storeErr" THEN store
                ELSE MergeJson(store, sess[s].guild, "message", heap'[sess[s].ref])
    /\ report' = [report EXCEPT ![s] =
                    IF out = "ok" THEN "Welcome message saved" ELSE "Error while saving"]
    /\ saveRun' = IF out = "storeErr" THEN NoRun
                  ELSE [s |-> s, n |-> IF saveRun.s = s THEN saveRun.n + 1 ELSE 1]
    /\ Cost(1 + FaultCost(out))
    /\ UNCHANGED <<sess, modal, pend, preview, notice, roleVars>>

\* save as it would be if its except clause stopped the view
SaveClosing(s, out) ==
    /\ Active(s)
    /\ nOps < MaxOps
    /\ store' = IF out = "storeErr" THEN store
                ELSE MergeJson(store, sess[s].guild, "message", SaveValue(s))
    /\ report' = [report EXCEPT ![s] =
                    IF out = "ok" THEN "Welcome message saved" ELSE "Error while saving"]
    /\ sess' = IF out = "ok" THEN sess ELSE [sess EXCEPT ![s].status = "Disabled"]
    /\ saveRun' = IF out = "storeErr" THEN NoRun
                  ELSE [s |-> s, n |-> IF saveRun.s = s THEN saveRun.n + 1 ELSE 1]
    /\ Cost(1 + FaultCost(out))
    /\ UNCHANGED <<heap, modal, pend, preview, notice, roleVars>>

\* save: out is "ok", "storeErr" (merge_json raises) or "sendErr" (the
\* success notice cannot be sent after the merge)
Save(s, out) ==
    /\ Active(s)
    /\ nOps < MaxOps
    /\ store' = IF out = "storeErr" THEN store
                ELSE MergeJson(store, sess[s].guild, "message", SaveValue(s))
    /\ report' = [report EXCEPT ![s] =
                    IF out = "ok" THEN "Welcome message saved" ELSE "Error while saving"]
    /\ saveRun' = IF out = "storeErr" THEN NoRun
                  ELSE [s |-> s, n |-> IF saveRun.s = s THEN saveRun.n + 1 ELSE 1]
    /\ Cost(1 + FaultCost(out))
    /\ UNCHANGED <<heap, sess, modal, pend, preview, notice, roleVars>>

\* AutoDisableView's timeout: the view stops taking interactions
Timeout(s) ==
    /\ Active(s)
    /\ Count
    /\ sess' = [sess EXCEPT ![s].status = "Disabled"]
    /\ EndRun
    /\ UNCHANGED <<store, heap, modal, pend, preview, report, notice, roleVars>>

Next ==
    \/ \E s \in Sessions, g \in Guilds : WelcomeMessage(s, g)
    \/ \E s \in Sessions : TogglePing(s)
    \/ \E s \in Sessions : ToggleAvatar(s)
    \/ \E s \in Sessions, k \in ModalKinds : SendModal(s, k)
    \/ \E s \in Sessions : ModalDismissed(s)
    \/ \E s \in Sessions, v \in TitleInputs : EditTitle(s, v)
    \/ \E s \in Sessions, v \in ContentInputs : EditContent(s, v)
    \/ \E s \in Sessions, v \in FooterInputs : EditFooter(s, v)
    \/ \E s \in Sessions, v \in ColorInputs : SetColor(s, v)
    \/ \E s \in Sessions, v \in ImageInputs : SetImage(s, v)
    \/ \E s \in Sessions : SetImageDone(s)
    \/ \E s \in Sessions : ShowHelp(s)
    \/ \E s \in Sessions, out \in {"ok", "storeErr", "sendErr"} : Save(s, out)
    \/ \E s \in Sessions : Timeout(s)

Spec == Init /\ [][Next]_vars

\* drafts an editor session opened on GuildMsg holds after some edits
EditedDrafts ==
    {[GuildMsg EXCEPT !.ping = TRUE],
     [GuildMsg EXCEPT !.title = "Hi", !.image = "http://new.png"],
     [GuildMsg EXCEPT !.showAvatar = TRUE, !.content = "Yo", !.color = <<>>]}

\* Two operators at work in guild 1: session s1 was opened on the stored
\* message and holds an edited draft, shown in its preview; s2 is still to
\* be opened.
InitRace ==
    /\ \E glob \in {<<>>, [message |-> GlobalMsg]} :
          store = [sc \in Scopes |->
                     IF sc = GlobalScope THEN glob
                     ELSE IF sc = 1
                          THEN [message |-> GuildMsg, enable |-> [message |-> TRUE]]
                          ELSE <<>>]
    /\ \E d \in EditedDrafts :
          /\ heap = [o \in Objs |-> IF o = "s1" THEN d ELSE InitialDefaultMsg]
          /\ preview = [s \in Sessions |->
                          IF s = "s1" THEN Build(d) ELSE Build(InitialDefaultMsg)]
    /\ sess = [s \in Sessions |->
                 IF s = "s1" THEN [status |-> "Active", guild |-> 1, ref |-> "s1"]
                 ELSE NoSession]
    /\ modal = [s \in Sessions |-> "none"]
    /\ pend = [s \in Sessions |-> NoPend]
    /\ report = [s \in Sessions |-> ""]
    /\ saveRun = NoRun
    /\ RolesIdle
    /\ nOps = 0
    /\ notice = NoNotice

SpecRace == InitRace /\ [][Next]_vars

----------------------------------------------------------------------------
(* The default roles: fetch_valid_welcome_roles, welcome_roles and         *)
(* WelcomeRolesView.                                                       *)

\* the events of a run of the role selector are bounded by MaxRoleOps
RoleCost(n) == nOps + n <= MaxRoleOps /\ nOps' = nOps + n

DigitChar(d) ==
    CASE d = 0 -> "0" [] d = 1 -> "1" [] d = 2 -> "2" [] d = 3 -> "3"
      [] d = 4 -> "4" [] d = 5 -> "5" [] d = 6 -> "6" [] d = 7 -> "7"
      [] d = 8 -> "8" [] d = 9 -> "9"

\* str(r.id)
RECURSIVE IdStr(_)
IdStr(n) ==
    IF n < 10 THEN <<DigitChar(n)>> ELSE IdStr(n \div 10) \o <<DigitChar(n % 10)>>

IdMax == 99

\* int(id)
IdInt(str) == ToInt(str, 10, IdMax, 0)

\* the elements of a list
Range(seq) == {seq[i] : i \in 1..Len(seq)}

\* Role.is_assignable() of the role with this id in guild g
IsAssignable(g, id) == guildRoles[g][id].assignable

\* [r for r in roles if r.is_assignable()]
AssignableOf(g, roles) == SelectSeq(roles, LAMBDA id : IsAssignable(g, id))

\* [r for r in roles if not r.is_assignable()]
UnassignableOf(g, roles) == SelectSeq(roles, LAMBDA id : ~IsAssignable(g, id))

\* fetch_valid_welcome_roles as it would be without the is_assignable
\* filter
FetchValidWelcomeRolesUnfiltered(st, g) ==
    LET stored == GetJson(st, g, "roles")
        ids == [i \in 1..Len(stored) |-> IdInt(stored[i])]
    IN  SelectSeq(ids, LAMBDA id : id \in Roles /\ guildRoles[g][id].exists)

\* fetch_valid_welcome_roles: the stored ids whose role exists and is
\* assignable
FetchValidWelcomeRoles(st, g) ==
    LET stored == GetJson(st, g, "roles")
        ids == [i \in 1..Len(stored) |-> IdInt(stored[i])]
        found == SelectSeq(ids, LAMBDA id : id \in Roles /\ guildRoles[g][id].exists)
    IN  AssignableOf(g, found)

\* welcome_roles: /welcome roles in guild g opens selector r, or reports the
\* missing permission
WelcomeRoles(r, g) ==
    /\ rsess[r].status = "none"
    /\ r = "r2" => rsess["r1"].status # "none"
    /\ RoleCost(1)
    /\ IF ~canManage[g]
       THEN /\ notice' = [g |-> g, title |-> "Missing permission", body |-> <<>>]
            /\ UNCHANGED rsess
       ELSE /\ rsess' = [rsess EXCEPT ![r] =
                           [status |-> "Active", guild |-> g,
                            defaults |-> FetchValidWelcomeRoles(store, g),
                            values |-> <<>>, selected |-> FALSE]]
            /\ UNCHANGED notice
    /\ UNCHANGED <<store, editorVars, guildRoles, canManage, joined>>

\* what the operator can choose in the select: the existing roles, in the
\* order of their ids
RECURSIVE Ascending(_)
Ascending(set) ==
    IF set = {} THEN <<>>
    ELSE LET m == CHOOSE x \in set : \A y \in set : x <= y
         IN  <<m>> \o Ascending(set \ {m})

AllSelections == {Ascending(c) : c \in SUBSET Roles}

Selections(g) ==
    {roles \in AllSelections : \A id \in Range(roles) : guildRoles[g][id].exists}

\* select_roles as it would be if it dropped the roles it reports
SelectRolesDropping(r, roles) ==
    /\ rsess[r].status = "Active"
    /\ roles \in Selections(rsess[r].guild)
    /\ RoleCost(1)
    /\ rsess' = [rsess EXCEPT ![r].values = AssignableOf(rsess[r].guild, roles),
                              ![r].selected = TRUE]
    /\ LET invalid == UnassignableOf(rsess[r].guild, roles)
       IN  notice' = IF invalid # <<>>
                     THEN [g |-> rsess[r].guild, title |-> "Invalid roles",
                           body |-> [current |-> <<>>, removed |-> invalid]]
                     ELSE notice
    /\ UNCHANGED <<store, editorVars, guildRoles, canManage, joined>>

\* select_roles
SelectRoles(r, roles) ==
    /\ rsess[r].status = "Active"
    /\ roles \in Selections(rsess[r].guild)
    /\ RoleCost(1)
    /\ rsess' = [rsess EXCEPT ![r].values = roles, ![r].selected = TRUE]
    /\ LET invalid == UnassignableOf(rsess[r].guild, roles)
       IN  notice' = IF invalid # <<>>
                     THEN [g |-> rsess[r].guild, title |-> "Invalid roles",
                           body |-> [current |-> <<>>, removed |-> invalid]]
                     ELSE notice
    /\ UNCHANGED <<store, editorVars, guildRoles, canManage, joined>>

\* the roles WelcomeRolesView.save would persist if it did not filter
ValidOfUnfiltered(r) == rsess[r].values

\* WelcomeRolesView.save: the roles it persists
ValidOf(r) == AssignableOf(rsess[r].guild, rsess[r].values)

\* WelcomeRolesView.save: the roles it reports as removed
InvalidOf(r) == UnassignableOf(rsess[r].guild, rsess[r].values)

\* WelcomeRolesView.save: out is "ok", "storeErr" (merge_json raises) or
\* "sendErr" (the notice cannot be sent after the merge)
RolesSave(r, out) ==
    /\ rsess[r].status = "Active"
    /\ RoleCost(1 + FaultCost(out))
    /\ store' = IF out = "storeErr" THEN store
                ELSE MergeJsonList(store, rsess[r].guild, "roles",
                                   [i \in 1..Len(ValidOf(r)) |-> IdStr(ValidOf(r)[i])])
    /\ notice' = IF out = "ok"
                 THEN [g |-> rsess[r].guild, title |-> "Default roles saved",
                       body |-> [current |-> ValidOf(r), removed |-> InvalidOf(r)]]
                 ELSE [g |-> rsess[r].guild, title |-> "Error while saving",
                       body |-> <<>>]
    /\ UNCHANGED <<editorVars, roleVars>>

\* AutoDisableView's timeout of a role selector
RolesTimeout(r) ==
    /\ rsess[r].status = "Active"
    /\ RoleCost(1)
    /\ rsess' = [rsess EXCEPT ![r].status = "Disabled"]
    /\ UNCHANGED <<store, editorVars, notice, guildRoles, canManage, joined>>

\* the guild moves a role above or below the bot's top role
RoleMoved(g, id) ==
    /\ guildRoles[g][id].exists
    /\ RoleCost(1)
    /\ guildRoles' = [guildRoles EXCEPT ![g][id].assignable = ~@]
    /\ UNCHANGED <<store, editorVars, notice, canManage, rsess, joined>>

\* the guild deletes a role
RoleDeleted(g, id) ==
    /\ guildRoles[g][id].exists
    /\ RoleCost(1)
    /\ guildRoles' = [guildRoles EXCEPT ![g][id].exists = FALSE]
    /\ UNCHANGED <<store, editorVars, notice, canManage, rsess, joined>>

\* guild 1 with and without persisted roles
InitRoles ==
    /\ \E own \in {<<>>, [roles |-> <<IdStr(11), IdStr(12), IdStr(13)>>]} :
          store = [sc \in Scopes |-> IF sc = 1 THEN own ELSE <<>>]
    /\ EditorIdle
    /\ RolesIdle
    /\ nOps = 0
    /\ notice = NoNotice

NextRoles ==
    \/ \E r \in RSessions, g \in Guilds : WelcomeRoles(r, g)
    \/ \E r \in RSessions, roles \in AllSelections : SelectRoles(r, roles)
    \/ \E r \in RSessions, out \in {"ok", "storeErr", "sendErr"} : RolesSave(r, out)
    \/ \E r \in RSessions : RolesTimeout(r)
    \/ \E id \in Roles : RoleMoved(1, id)
    \/ \E id \in Roles : RoleDeleted(1, id)

SpecRoles == InitRoles /\ [][NextRoles]_vars

----------------------------------------------------------------------------
(* on_member_join, and the specification of the cog's commands and         *)
(* listener without any session.                                           *)

\* what on_member_join can end in: add_roles raises ("addErr"), build
\* raises ("valueErr"), the send is refused, or all is done ("ok")
JoinOutcomes(roles, sys, cfg) ==
    (IF roles # <<>> THEN {"addErr"} ELSE {})
        \cup (IF ~sys THEN {"ok"}
              ELSE IF Build(cfg).color = Invalid THEN {"valueErr"}
              ELSE TransportOutcomes(Build(cfg)))

\* on_member_join of a member of guild g: bot says whether the member is a
\* bot, sys whether the guild has a system channel.  add_roles grants the
\* roles one request at a time, so when it raises the roles before the
\* failing one are granted.
OnMemberJoin(g, bot, sys, out) ==
    /\ nOps < MaxOps
    /\ LET roles == IF canManage[g] THEN FetchValidWelcomeRoles(store, g) ELSE <<>>
           cfg == FetchWelcomeMsg(store, heap, g).val
       IN  IF bot
           THEN /\ out = "ok"
                /\ Count
                /\ joined' = [NoJoin EXCEPT !.g = g, !.bot = TRUE]
           ELSE /\ out \in JoinOutcomes(roles, sys, cfg)
                /\ Cost(1 + (IF out \in Faults \cup {"addErr", "valueErr"} THEN 1 ELSE 0))
                /\ \E k \in 0..Len(roles) :
                      /\ IF out = "addErr" THEN k < Len(roles) ELSE k = Len(roles)
                      /\ joined' = [g |-> g, bot |-> FALSE,
                                    roles |-> SubSeq(roles, 1, k),
                                    sent |-> sys /\ out = "ok",
                                    cfg |-> IF sys /\ out = "ok" THEN cfg
                                            ELSE InitialDefaultMsg]
    /\ UNCHANGED <<store, editorVars, notice, guildRoles, canManage, rsess>>

\* the configuration commands and the listener alone
NextEnable ==
    \/ \E g \in Guilds, m \in {<<>>, <<TRUE>>, <<FALSE>>} : WelcomeEnable(g, m)
    \/ \E g \in Guilds, file \in FileInputs, url \in UrlInputs, db \in BOOLEAN,
          out \in {"ok", "uploadErr", "http400", "httpErr", "storeErr"} :
          WelcomeImage(g, file, url, db, out)
    \/ \E g \in Guilds, bot \in BOOLEAN, sys \in BOOLEAN,
          out \in {"ok", "addErr", "valueErr", "httpErr", "http400"} :
          OnMemberJoin(g, bot, sys, out)

SpecEnable == Init /\ [][NextEnable]_vars

\* the guild grants or revokes the bot's manage_roles permission
PermissionChanged(g) ==
    /\ RoleCost(1)
    /\ canManage' = [canManage EXCEPT ![g] = ~@]
    /\ UNCHANGED <<store, editorVars, notice, guildRoles, rsess, joined>>

\* members join while the guild's roles and the bot's permission change
NextJoin ==
    \/ \E g \in Guilds, bot \in BOOLEAN, sys \in BOOLEAN,
          out \in {"ok", "addErr", "valueErr", "httpErr", "http400"} :
          OnMemberJoin(g, bot, sys, out)
    \/ \E id \in Roles : RoleMoved(1, id)
    \/ \E id \in Roles : RoleDeleted(1, id)
    \/ \E g \in Guilds : PermissionChanged(g)

SpecJoin == InitRoles /\ [][NextJoin]_vars

----------------------------------------------------------------------------
(* Properties of the message editor.                                       *)

\* the value the three tiers resolve to for guild g
Resolved(st, g) ==
    IF ExistsJson(st, g, "message") THEN st[g]["message"]
    ELSE IF ExistsJson(st, GlobalScope, "message") THEN st[GlobalScope]["message"]
    ELSE InitialDefaultMsg

\* a step of an edit action of session s
EditStep(s) ==
    \/ TogglePing(s)
    \/ ToggleAvatar(s)
    \/ \E k \in ModalKinds : SendModal(s, k)
    \/ ModalDismissed(s)
    \/ \E v \in TitleInputs : EditTitle(s, v)
    \/ \E v \in ContentInputs : EditContent(s, v)
    \/ \E v \in FooterInputs : EditFooter(s, v)
    \/ \E v \in ColorInputs : SetColor(s, v)
    \/ \E v \in ImageInputs : SetImage(s, v)
    \/ SetImageDone(s)
    \/ ShowHelp(s)

\* a save of session s that wrote the store
SaveWrote(s) == Save(s, "ok") \/ Save(s, "sendErr")

\* C1: in every reachable state, fetch_welcome_msg(g) returns the community's
\* stored message if present, else the global default's if present, else the
\* built-in default message as compiled in.
C1_FetchResolvesTiers ==
    \A g \in Guilds : FetchWelcomeMsg(store, heap, g).val = Resolved(store, g)

\* C2: the store changes only in a step of a session's save action; no edit
\* action of a session changes it.
C2_StoreChangesOnlyOnSave ==
    [][/\ store' # store => \E s \in Sessions : SaveWrote(s)
       /\ \A s \in Sessions : EditStep(s) => store' = store]_vars

\* C2 witness: a session whose draft was loaded from its community's stored
\* message has been edited, and the stored message is as it was.
C2_Witness ==
    \E s \in Sessions :
        /\ Active(s) /\ sess[s].ref = s /\ nOps > 0
        /\ ExistsJson(store, sess[s].guild, "message")
        /\ store[sess[s].guild]["message"] = GuildMsg
        /\ heap[s] # GuildMsg

\* C3: while two sessions are both open, an edit action of one never changes
\* the draft the other holds.
C3_SessionsIndependent ==
    [][\A s, t \in Sessions :
          (s # t /\ Active(s) /\ Active(t) /\ EditStep(s))
              => heap'[sess'[t].ref] = Draft(t)]_vars

\* a text that is a colour under no accepted notation, bare or prefixed
NotAColor(v) ==
    /\ v # <<>>
    /\ ColorFromStr(v) = Invalid
    /\ ColorFromStr(<<"#">> \o v) = Invalid

\* C4: a set-color submission that is non-empty and not a colour leaves every
\* draft and every preview as they were, reports "Invalid color format" to
\* the operator and leaves the session's status alone.
C4_InvalidColorRejected ==
    [][\A s \in Sessions, v \in ColorInputs :
          (SetColor(s, v) /\ NotAColor(v))
              => /\ heap' = heap
                 /\ preview' = preview
                 /\ report'[s] = "Invalid color format"
                 /\ sess' = sess]_vars

\* C4 witness: an Active session has been told its colour was invalid.
C4_Witness ==
    \E s \in Sessions :
        /\ Active(s) /\ report[s] = "Invalid color format"
        /\ modal[s] = "none" /\ ColorFromStr(Draft(s).color) # Invalid

\* C5: set_image changes no draft field but image; and when its re-render is
\* refused with HTTP 400 the image is the one held before the submission,
\* every other field is as it was, the operator is told "Invalid url format"
\* and the session's status is left alone.
C5_BadImageRestored ==
    [][\A s \in Sessions :
          /\ \A v \in ImageInputs : SetImage(s, v) =>
                /\ heap' = [heap EXCEPT ![sess[s].ref]["image"] = v]
                /\ pend'[s].old = Draft(s).image
          /\ (SetImageDone(s) /\ pend[s].payload.image \in BadImages
                /\ pend[s].payload.color # Invalid) =>
                /\ heap' = [heap EXCEPT ![sess[s].ref]["image"] = pend[s].old]
                /\ report'[s] = "Invalid url format"
                /\ sess' = sess]_vars

\* C5 witness: an Active session was told its image was refused, and its
\* draft holds an image the transport accepts again.
C5_Witness ==
    \E s \in Sessions :
        /\ Active(s) /\ report[s] = "Invalid url format"
        /\ ~pend[s].active /\ Draft(s).image \notin BadImages

\* C6: after a save without store error, the message stored for the session's
\* guild is the session's draft, field for field, and nothing else in the
\* store has changed: no other scope, no other path of the guild.
C6_SaveStoresDraft ==
    [][\A s \in Sessions :
          SaveWrote(s) =>
             LET g == sess[s].guild
             IN  /\ ExistsJson(store', g, "message")
                 /\ store'[g]["message"] = heap'[sess'[s].ref]
                 /\ DOMAIN store'[g]["message"] = Fields
                 /\ \A sc \in Scopes \ {g} : store'[sc] = store[sc]
                 /\ DOMAIN store'[g] = (DOMAIN store[g]) \cup {"message"}
                 /\ \A p \in (DOMAIN store[g]) \ {"message"} :
                       store'[g][p] = store[g][p]]_vars

\* C6 witness: a session has saved an edited draft in a guild that holds
\* another path, and the stored message is that draft.
C6_Witness ==
    \E s \in Sessions :
        /\ report[s] = "Welcome message saved"
        /\ sess[s].guild = 1 /\ ExistsJson(store, 1, "enable")
        /\ store[1]["message"] = Draft(s)
        /\ Draft(s) # GuildMsg

\* C7: a save that directly follows a save of the same session, with the
\* draft untouched in between, leaves the store as the first save left it.
C7_SaveIdempotent ==
    [][\A s \in Sessions :
          (SaveWrote(s) /\ saveRun.s = s /\ saveRun.n >= 1) => store' = store]_vars

\* C7 witness: a session has saved twice in succession.
C7_Witness == saveRun.n >= 2

\* C16: a save whose merge-write fails tells the operator "Error while
\* saving" and changes nothing else: every draft, the store, the previews
\* and the session, which stays Active with the draft it had, so that its
\* save button is still served.
C16_FailedSaveKeepsDraft ==
    [][\A s \in Sessions :
          Save(s, "storeErr") =>
              /\ report'[s] = "Error while saving"
              /\ heap' = heap
              /\ store' = store
              /\ sess' = sess /\ sess'[s].status = "Active"
              /\ preview' = preview /\ modal' = modal /\ pend' = pend]_vars

\* C16 witness: a session was told its save failed; it is Active and holds
\* a draft that the store does not hold.
C16_Witness ==
    \E s \in Sessions :
        /\ Active(s) /\ report[s] = "Error while saving"
        /\ sess[s].guild = 1 /\ ExistsJson(store, 1, "message")
        /\ store[1]["message"] = GuildMsg
        /\ Draft(s) \in EditedDrafts

\* a text that starts with none of the prefixes set_color looks for
Unprefixed(v) ==
    /\ v # <<>>
    /\ ~StartsWith(v, <<"#">>)
    /\ ~StartsWith(v, <<"0", "x">>)
    /\ ~StartsWith(v, <<"r", "g", "b">>)

\* C18: after every step, the draft of each session that was opened holds a
\* colour that is empty or parses, so that build does not raise on it; and
\* an accepted set-color text without prefix is stored with '#' before it.
C18_DraftColorParses ==
    [][\A s \in Sessions :
          /\ sess'[s].status # "none" =>
                LET c == heap'[sess'[s].ref].color
                IN  /\ c = <<>> \/ ColorFromStr(c) # Invalid
                    /\ Build(heap'[sess'[s].ref]).color # Invalid
          /\ \A v \in ColorInputs :
                (SetColor(s, v) /\ Unprefixed(v)
                    /\ ColorFromStr(<<"#">> \o v) # Invalid) =>
                    heap'[sess'[s].ref].color = <<"#">> \o v]_vars

\* C18 witness: a session opened on the built-in default holds the colour
\* "#111", which set_color stored for the text "111".
C18_Witness ==
    \E s \in Sessions :
        /\ Active(s) /\ sess[s].ref = DefaultObj
        /\ Draft(s).color = <<"#", "1", "1", "1">>
        /\ preview[s].color = ColorFromStr(<<"#", "1", "1", "1">>)

----------------------------------------------------------------------------
(* Properties of the configuration commands.                               *)

\* C8: a merge-write keeps every key the written value does not mention:
\* welcome_enable without the 'message' option keeps every key of the stored
\* 'enable' object and adds none; with it, 'message' takes the given value
\* and every other key is kept; nothing else in the store changes.
C8_EnableMergeKeepsKeys ==
    [][\A g \in Guilds, m \in {<<>>, <<TRUE>>, <<FALSE>>} :
          WelcomeEnable(g, m) =>
             LET old == GetJson(store, g, "enable")
                 new == GetJson(store', g, "enable")
             IN  /\ \A k \in DOMAIN old :
                       (m = <<>> \/ k # "message") =>
                           (k \in DOMAIN new /\ new[k] = old[k])
                 /\ m # <<>> => ("message" \in DOMAIN new /\ new["message"] = m[1])
                 /\ DOMAIN new = (DOMAIN old) \cup (IF m = <<>> THEN {} ELSE {"message"})
                 /\ (m = <<>> /\ ExistsJson(store, g, "enable")) => store' = store
                 /\ \A sc \in Scopes \ {g} : store'[sc] = store[sc]
                 /\ \A p \in (DOMAIN store[g]) \ {"enable"} : store'[g][p] = store[g][p]
                 /\ MergeObj([a |-> 0, b |-> 2], [a |-> 1]) = [a |-> 1, b |-> 2]]_vars

\* C8 witness: welcome_enable ran with the option on guild 1, whose stored
\* object now says No beside its untouched message, and without the option
\* on guild 2, whose object holds no key.
C8_Witness ==
    /\ store[1] = [message |-> GuildMsg, enable |-> [message |-> FALSE]]
    /\ ExistsJson(store, 2, "enable")
    /\ DOMAIN store[2]["enable"] = {}
    /\ notice.title = "Welcome feature options"

\* the inputs of a welcome_image invocation in guild g
ImageStep(g) ==
    \E file \in FileInputs, url \in UrlInputs, db \in BOOLEAN,
       out \in {"ok", "uploadErr", "http400", "httpErr", "storeErr"} :
       WelcomeImage(g, file, url, db, out)

\* C13: welcome_image in a guild that stores no 'message' of its own
\* changes nothing in the store and answers "Please set message first",
\* whatever the global default holds and whatever it is invoked with.
C13_ImageNeedsOwnMessage ==
    [][\A g \in Guilds :
          (ImageStep(g) /\ ~ExistsJson(store, g, "message")) =>
              /\ store' = store
              /\ notice' = [g |-> g, title |-> "Please set message first",
                            body |-> <<>>]]_vars

\* C13 witness: welcome_image was refused in a guild without a message of
\* its own while the global default holds one.
C13_Witness ==
    /\ notice.title = "Please set message first"
    /\ notice.g = 2
    /\ ExistsJson(store, GlobalScope, "message")
    /\ ~ExistsJson(store, 2, "message")

\* C22: welcome_image changes the store only when its confirmation was
\* accepted: when the transport refuses the confirmation, with status 400
\* or otherwise, the store is as it was and the invoker is told of the
\* failure; and when the command succeeds, the guild's stored message has
\* the new url as its image, its other six fields as they were, and
\* nothing else in the store has changed.
C22_ImageWrittenAfterConfirmation ==
    [][\A g \in Guilds, file \in FileInputs, url \in UrlInputs, db \in BOOLEAN,
          out \in {"ok", "uploadErr", "http400", "httpErr", "storeErr"} :
          WelcomeImage(g, file, url, db, out) =>
              /\ out = "http400" =>
                    (store' = store /\ notice'.title = "Invalid url format")
              /\ out = "httpErr" =>
                    (store' = store /\ notice'.title = "Error while saving")
              /\ store' # store =>
                    (out = "ok" /\ notice'.title = "Welcome image saved")
              /\ (out = "ok" /\ notice'.title = "Welcome image saved") =>
                    /\ DOMAIN store'[g]["message"] = DOMAIN store[g]["message"]
                    /\ store'[g]["message"]["image"] =
                          (IF file = "none" THEN url ELSE UploadedUrl)
                    /\ \A f \in Fields \ {"image"} :
                          store'[g]["message"][f] = store[g]["message"][f]
                    /\ \A sc \in Scopes \ {g} : store'[sc] = store[sc]
                    /\ DOMAIN store'[g] = DOMAIN store[g]
                    /\ \A q \in (DOMAIN store[g]) \ {"message"} :
                          store'[g][q] = store[g][q]]_vars

\* C22 witness: welcome_image has confirmed a url in guild 1, whose stored
\* message differs from the earlier one in the image alone.
C22_Witness ==
    /\ notice = [g |-> 1, title |-> "Welcome image saved", body |-> <<>>]
    /\ store[1]["message"] = [GuildMsg EXCEPT !.image = "http://new.png"]
    /\ store[1]["enable"] = [message |-> TRUE]

\* a member-join event of guild g being handled
JoinStep(g) ==
    \E bot \in BOOLEAN, sys \in BOOLEAN,
       out \in {"ok", "addErr", "valueErr", "httpErr", "http400"} :
       OnMemberJoin(g, bot, sys, out)

\* C17: a welcome message is sent on a member's join only if the guild's
\* stored enable option 'message' is true; a guild that stores no such
\* option gets none.
C17_WelcomeOnlyWhenEnabled ==
    [][\A g \in Guilds :
          (JoinStep(g) /\ joined'.sent) =>
              /\ ExistsJson(store, g, "enable")
              /\ "message" \in DOMAIN store[g]["enable"]
              /\ store[g]["enable"]["message"]]_vars

----------------------------------------------------------------------------
(* Properties of the role selector.                                        *)

\* the role ids stored under a guild's 'roles' path
StoredRoleIds(st, g) ==
    LET stored == GetJson(st, g, "roles")
    IN  {IdInt(stored[i]) : i \in 1..Len(stored)}

\* a save of selector r that reached the store
RolesSaveWrote(r) == RolesSave(r, "ok") \/ RolesSave(r, "sendErr")

\* C9: a completed save of the role selector persists exactly the
\* candidates that are assignable at that moment, as the strings of their
\* ids and under the 'roles' path only, and its report lists exactly the
\* other candidates as removed.
C9_SavePartitionsRoles ==
    [][\A r \in RSessions :
          LET g == rsess[r].guild
              cand == Range(rsess[r].values)
              good == {id \in cand : guildRoles[g][id].assignable}
          IN  /\ RolesSaveWrote(r) =>
                    /\ StoredRoleIds(store', g) = good
                    /\ \A i \in 1..Len(GetJson(store', g, "roles")) :
                          GetJson(store', g, "roles")[i] \in {IdStr(id) : id \in good}
                    /\ \A id \in StoredRoleIds(store', g) : guildRoles'[g][id].assignable
                    /\ \A sc \in Scopes \ {g} : store'[sc] = store[sc]
                    /\ \A p \in (DOMAIN store[g]) \ {"roles"} : store'[g][p] = store[g][p]
              /\ RolesSave(r, "ok") =>
                    /\ notice'.title = "Default roles saved"
                    /\ Range(notice'.body.current) = good
                    /\ Range(notice'.body.removed) = cand \ good]_vars

\* C9 witness: a save of the candidates 11, 12, 13 has persisted 11 and 13
\* and reported 12 as removed.
C9_Witness ==
    /\ notice.title = "Default roles saved"
    /\ notice.body = [current |-> <<11, 13>>, removed |-> <<12>>]
    /\ store[notice.g]["roles"] = <<IdStr(11), IdStr(13)>>

\* C10: a selector opens with the persisted roles that exist and are
\* assignable as its pre-populated selection, and a save that reaches the
\* store before any select action persists that pre-populated set (less
\* the members that stopped being assignable since), so that no persisted
\* valid role is lost.
C10_SaveKeepsPrepopulated ==
    [][\A r \in RSessions :
          /\ \A g \in Guilds :
                (WelcomeRoles(r, g) /\ canManage[g]) =>
                    rsess'[r].defaults = FetchValidWelcomeRoles(store, g)
          /\ (RolesSaveWrote(r) /\ ~rsess[r].selected) =>
                StoredRoleIds(store', rsess[r].guild) =
                    {id \in Range(rsess[r].defaults) :
                        guildRoles[rsess[r].guild][id].assignable}]_vars

\* C19: a select action makes the chosen roles the candidates, all of
\* them and in their order, writes nothing to the store, and sends the
\* report "Invalid roles", listing the chosen roles that are not
\* assignable, exactly when there is such a role.
C19_SelectKeepsChosen ==
    [][\A r \in RSessions, roles \in AllSelections :
          SelectRoles(r, roles) =>
              LET g == rsess[r].guild
                  bad == {id \in Range(roles) : ~guildRoles[g][id].assignable}
              IN  /\ rsess'[r].values = roles
                  /\ store' = store
                  /\ rsess'[r].status = "Active"
                  /\ bad # {} =>
                        /\ notice'.g = g /\ notice'.title = "Invalid roles"
                        /\ Range(notice'.body.removed) = bad
                  /\ bad = {} => notice' = notice]_vars

\* C19 witness: the operator chose 11 and 12 and was told that 12 is
\* invalid; both are candidates, and nothing is stored for the guild.
C19_Witness ==
    \E r \in RSessions :
        /\ rsess[r].status = "Active" /\ rsess[r].values = <<11, 12>>
        /\ notice.title = "Invalid roles" /\ notice.body.removed = <<12>>
        /\ ~ExistsJson(store, rsess[r].guild, "roles")

\* C23: a member-join event grants roles only to a member that is no bot
\* and only while the bot may manage roles; each role granted is stored
\* for the guild, exists in it and is assignable at that moment; and a bot
\* is granted no role and sent no welcome message.
C23_JoinGrantsValidRoles ==
    [][\A g \in Guilds, bot \in BOOLEAN, sys \in BOOLEAN,
          out \in {"ok", "addErr", "valueErr", "httpErr", "http400"} :
          OnMemberJoin(g, bot, sys, out) =>
              LET granted == Range(joined'.roles)
              IN  /\ granted # {} => (~bot /\ canManage[g])
                  /\ \A id \in granted :
                        /\ IdStr(id) \in Range(GetJson(store, g, "roles"))
                        /\ id \in Roles /\ guildRoles[g][id].exists
                        /\ guildRoles[g][id].assignable
                  /\ bot => (joined'.roles = <<>> /\ ~joined'.sent)]_vars

\* C23 witness: of the stored roles 11, 12 and 13 of guild 1, a joining
\* member was granted 11 alone: 12 is not assignable and 13 was deleted.
C23_Witness ==
    /\ joined.g = 1 /\ ~joined.bot /\ joined.roles = <<11>>
    /\ GetJson(store, 1, "roles") = <<IdStr(11), IdStr(12), IdStr(13)>>
    /\ ~guildRoles[1][13].exists
    /\ ~guildRoles[1][12].assignable

----------------------------------------------------------------------------
(* Properties of the editor session's life cycle.                          *)

\* a press of one of session s's buttons being handled
ButtonStep(s) ==
    \/ TogglePing(s)
    \/ ToggleAvatar(s)
    \/ \E k \in ModalKinds : SendModal(s, k)
    \/ ShowHelp(s)
    \/ \E out \in {"ok", "storeErr", "sendErr"} : Save(s, out)

\* the resumption of a handler of session s that was suspended on its
\* sub-dialog
ResumeStep(s) ==
    \/ \E v \in TitleInputs : EditTitle(s, v)
    \/ \E v \in ContentInputs : EditContent(s, v)
    \/ \E v \in FooterInputs : EditFooter(s, v)
    \/ \E v \in ColorInputs : SetColor(s, v)
    \/ \E v \in ImageInputs : SetImage(s, v)

\* C11: a save that succeeded leaves the session in the terminal state
\* Saved; in the step after it no edit action of the session is taken and
\* no save of the session writes the store.
C11_SavedIsTerminal ==
    [][\A s \in Sessions :
          /\ Save(s, "ok") => sess'[s].status = "Saved"
          /\ (saveRun.s = s /\ saveRun.n >= 1
                /\ report[s] = "Welcome message saved") =>
                (~EditStep(s) /\ ~SaveWrote(s))]_vars

\* C12: the timeout writes nothing to the store and leaves the session
\* Disabled; a Disabled session stays Disabled, and no step of one of its
\* handlers changes its draft or the store.
C12_DisabledIsInert ==
    [][\A s \in Sessions :
          /\ Timeout(s) => (store' = store /\ sess'[s].status = "Disabled")
          /\ sess[s].status = "Disabled" =>
                /\ sess'[s].status = "Disabled"
                /\ (ButtonStep(s) \/ ResumeStep(s) \/ SetImageDone(s)) =>
                      (heap'[sess'[s].ref] = Draft(s) /\ store' = store)]_vars

\* C14: while a sub-dialog of a session is open, no press of a button of
\* that session is handled.
C14_SingleOccupancy ==
    [][\A s \in Sessions : modal[s] # "none" => ~ButtonStep(s)]_vars

\* C15: when two sessions of one guild have both saved, the message stored
\* for the guild equals, in each of the seven fields, the draft of the
\* session whose save wrote last.
C15_LastWriteWins ==
    \A s, t \in Sessions :
        (/\ s # t /\ sess[s].guild = sess[t].guild
         /\ report[t] = "Welcome message saved"
         /\ saveRun.s = s /\ saveRun.n >= 1) =>
            /\ DOMAIN store[sess[s].guild]["message"] = Fields
            /\ \A f \in Fields : store[sess[s].guild]["message"][f] = Draft(s)[f]

\* C15 witness: both sessions of guild 1 have saved drafts that differ, and
\* the session that wrote last holds the draft the other session did not.
C15_Witness ==
    \E s, t \in Sessions :
        /\ s # t /\ sess[s].guild = 1 /\ sess[t].guild = 1
        /\ report[t] = "Welcome message saved"
        /\ report[s] = "Welcome message saved"
        /\ saveRun.s = s
        /\ Draft(s) # Draft(t)
        /\ Draft(s).title # Draft(t).title
        /\ store[1]["message"] = Draft(s)

\* C20: a step that is no save leaves what fetch_welcome_msg resolves for
\* each guild as it was, and leaves the built-in default message with the
\* field values it was compiled with.
C20_UnsavedEditsInvisible ==
    [][(\A s \in Sessions, out \in {"ok", "storeErr", "sendErr"} : ~Save(s, out)) =>
          /\ \A g \in Guilds :
                FetchWelcomeMsg(store', heap', g).val = FetchWelcomeMsg(store, heap, g).val
          /\ heap'[DefaultObj] = InitialDefaultMsg]_vars

\* a step in which an edit handler of session s runs to its end
EditEnds(s) ==
    \/ TogglePing(s)
    \/ ToggleAvatar(s)
    \/ \E v \in TitleInputs : EditTitle(s, v)
    \/ \E v \in ContentInputs : EditContent(s, v)
    \/ \E v \in FooterInputs : EditFooter(s, v)
    \/ \E v \in ColorInputs : SetColor(s, v)
    \/ SetImageDone(s)

\* C21: when an edit handler of an Active session has run to its end, with
\* or without a failure, the hosting message shows the rendering of the
\* draft the session then holds.
C21_PreviewShowsDraft ==
    [][\A s \in Sessions :
          (Active(s) /\ EditEnds(s)) =>
              preview'[s] = Build(heap'[sess'[s].ref])]_vars

====
